---- MODULE Spec2Model ----
(***************************************************************************)
(* Model of codesage77/micro: the HttpServer runtime (package server) and  *)
(* the Service orchestrator (package service).                             *)
(*                                                                         *)
(* Execution paths: the caller ("caller"), the signal/cancellation watcher *)
(* spawned by Service.Start ("watcher"), and the serve and drain           *)
(* goroutines spawned by HttpServer.Start.  The caller's program is        *)
(* Endpoints* ; Start ; Stop, the life cycle the package supports.         *)
(***************************************************************************)
EXTENDS Integers, Sequences, FiniteSets, TLC

\* ---------------------------------------------------------------- bounds
MaxHooks == 2        \* hooks registered per lifecycle phase
MaxInflight == 1     \* requests in flight at once
MaxEndpoints == 2    \* endpoints registered in total
MaxDecorators == 4   \* decorators per endpoint

\* ------------------------------------------------------ program constants
DefaultShutdownTimeout == 5

Procs == {"caller", "watcher"}
Nil == "nil"

\* EndpointDecoratorType
Before == "Before"
After == "After"

ConfigPorts == {-1, 0, 8080}
EphemeralPorts == {49152}

VARIABLES
  opts,           \* Service.opts
  handlers,       \* router: endpoint, provider and composed handler, in registration order
  tpCreated,      \* tracer providers created so far (ids 1..tpCreated)
  traceProvider,  \* Service.traceProvider (0 = nil)
  tpShutdown,     \* how often each provider has been shut down
  served,         \* the last request served: endpoint index and side effects in order
  pc,             \* position of the caller and of the watcher
  idx,            \* index of the hook a path is about to run
  log,            \* lifecycle events of the caller and of the watcher, in order
  startRet,       \* what Service.Start returned
  stopRet,        \* what Service.Stop returned, per calling path
  server,         \* Service.server: the HttpServer's fields (nil before Start)
  listener,       \* the TCP listener: state "none", "open" or "closed", and its address
  servePc,        \* serve goroutine
  drainPc,        \* drain goroutine
  drainCh,        \* the reply channel the drain goroutine received
  shutdownErr,    \* what srv.Shutdown returned
  elapsed,        \* seconds of the shutdown deadline that have passed
  inflight,       \* requests being handled
  hsStopCalls,    \* HttpServer.Stop invocations
  exitRecv,       \* shutdown requests of each path handed over on hs.exit
  acks,           \* acknowledgments each path received on its reply channel
  hsRet,          \* what HttpServer.Stop returned, per calling path
  ctxDone,        \* opts.Context is done
  sigCh           \* signals buffered in the watcher's channel

svcVars == <<opts, handlers, tpCreated, traceProvider, tpShutdown, served>>
lifeVars == <<pc, idx, log, startRet, stopRet>>
hsVars == <<server, listener, servePc, drainPc, drainCh, shutdownErr, elapsed,
            inflight, hsStopCalls, exitRecv, acks, hsRet>>
envVars == <<ctxDone, sigCh>>
vars == <<svcVars, lifeVars, hsVars, envVars>>

\* =================================================================
\* Endpoint composition (service.go: Endpoints, decorateHandler; telemetry.go)
\* =================================================================

\* A decorator list: the i-th decorator has type t[i] and function i.
DecoratorList(t) == [i \in 1..Len(t) |-> [Type |-> t[i], fn |-> i]]
DecoratorTypeLists == UNION {[1..n -> {Before, After}] : n \in 0..MaxDecorators}
AllEndpoints == {[Name |-> "ep", Decorators |-> DecoratorList(t)] : t \in DecoratorTypeLists}
\* The endpoint of TestService: one Before and one After decorator.
TestEndpoints == {[Name |-> "getRoot", Decorators |-> DecoratorList(<<Before, After>>)]}

BaseHandler == [kind |-> "base"]

decorateHandler(h, ed) == [kind |-> "decorated", ed |-> ed, h |-> h]

trace(h, tp) == [kind |-> "traced", tp |-> tp, h |-> h]

\* The side effects of one request to handler h, in order.
RECURSIVE ServeHTTP(_)
ServeHTTP(h) ==
  IF h.kind = "base" THEN <<[Type |-> "Handler", fn |-> 0]>>
  ELSE IF h.kind = "decorated" THEN
    (IF h.ed.Type = Before THEN <<h.ed>> ELSE <<>>)
      \o ServeHTTP(h.h)
      \o (IF h.ed.Type = After THEN <<h.ed>> ELSE <<>>)
  ELSE <<[Type |-> "SpanStart", fn |-> h.tp]>>
      \o ServeHTTP(h.h)
      \o <<[Type |-> "SpanEnd", fn |-> h.tp]>>

\* Mutant: every decorator wraps the base handler, so only the last one stays.
DecorateLastOnly(h, ds) ==
  IF ds = <<>> THEN h ELSE decorateHandler(h, ds[Len(ds)])

\* for _, d := range ep.Decorators { h = decorateHandler(h, d) }
RECURSIVE Decorate(_, _)
Decorate(h, ds) ==
  IF ds = <<>> THEN h ELSE Decorate(decorateHandler(h, Head(ds)), Tail(ds))

TracingConfigured == opts.Sampler /\ opts.Exporter

\* initTracer: a new provider on every call; it never fails.
initTracer(created) == created + 1

\* The loop of Service.Endpoints over eps, from router state st =
\* [handlers, tpCreated, traceProvider].
RECURSIVE EndpointsLoop(_, _)
EndpointsLoop(st, eps) ==
  IF eps = <<>> THEN st
  ELSE LET ep == Head(eps)
           h == Decorate(BaseHandler, ep.Decorators)
           tp == initTracer(st.tpCreated)
       IN IF TracingConfigured
          THEN EndpointsLoop([handlers |-> Append(st.handlers, [ep |-> ep, tp |-> tp, h |-> trace(h, tp)]),
                              tpCreated |-> tp,
                              traceProvider |-> tp], Tail(eps))
          ELSE EndpointsLoop([handlers |-> Append(st.handlers, [ep |-> ep, tp |-> 0, h |-> h]),
                              tpCreated |-> st.tpCreated,
                              traceProvider |-> st.traceProvider], Tail(eps))

\* Service.Endpoints(eps...), called by the caller before Start.
Endpoints(eps) ==
  /\ pc["caller"] = "init"
  /\ Len(handlers) + Len(eps) <= MaxEndpoints
  /\ LET st == EndpointsLoop([handlers |-> handlers, tpCreated |-> tpCreated,
                              traceProvider |-> traceProvider], eps)
     IN /\ handlers' = st.handlers
        /\ tpCreated' = st.tpCreated
        /\ traceProvider' = st.traceProvider
  /\ UNCHANGED <<opts, tpShutdown, served, lifeVars, hsVars, envVars>>

\* One request to a registered endpoint's composed handler.
ServeRequest ==
  /\ \E k \in 1..Len(handlers) : served' = [ep |-> k, effects |-> ServeHTTP(handlers[k].h)]
  /\ UNCHANGED <<opts, handlers, tpCreated, traceProvider, tpShutdown, lifeVars, hsVars, envVars>>

\* =================================================================
\* HttpServer (server.go)
\* =================================================================

NoAddr == [host |-> "", port |-> 0]
\* Service.server before Start: a nil pointer.
NilServer ==
  [nil |-> TRUE, address |-> NoAddr,
   options |-> [Hostname |-> "", Port |-> 0, CertificateFile |-> "", KeyFile |-> "",
                ShutdownTimeout |-> 0]]

\* The options Service.Start passes: server.Port and server.TLS only.
ServerOptions ==
  [Hostname |-> "", Port |-> opts.Port, CertificateFile |-> opts.CertificateFile,
   KeyFile |-> opts.KeyFile, ShutdownTimeout |-> 0]

\* Mutant: only a negative shutdown timeout gets the default.
NewHttpServerKeepingZeroTimeout(o) ==
  LET hostname == IF o.Hostname = "" THEN "localhost" ELSE o.Hostname
      port == IF o.Port < 0 THEN 0 ELSE o.Port
      timeout == IF o.ShutdownTimeout < 0 THEN DefaultShutdownTimeout ELSE o.ShutdownTimeout
  IN [nil |-> FALSE,
      address |-> [host |-> hostname, port |-> port],
      options |-> [Hostname |-> hostname, Port |-> port,
                   CertificateFile |-> o.CertificateFile, KeyFile |-> o.KeyFile,
                   ShutdownTimeout |-> timeout]]

NewHttpServer(o) ==
  LET hostname == IF o.Hostname = "" THEN "localhost" ELSE o.Hostname
      port == IF o.Port < 0 THEN 0 ELSE o.Port
      timeout == IF o.ShutdownTimeout <= 0 THEN DefaultShutdownTimeout ELSE o.ShutdownTimeout
  IN [nil |-> FALSE,
      address |-> [host |-> hostname, port |-> port],
      options |-> [Hostname |-> hostname, Port |-> port,
                   CertificateFile |-> o.CertificateFile, KeyFile |-> o.KeyFile,
                   ShutdownTimeout |-> timeout]]

\* net.Listen("tcp", a): the addresses the listener may get. The host is
\* resolved and port 0 is replaced by a port the OS picks.
ResolvedHost(h) == IF h = "localhost" THEN "127.0.0.1" ELSE h
ListenAddrs(a) ==
  {[host |-> ResolvedHost(a.host), port |-> p] :
     p \in IF a.port = 0 THEN EphemeralPorts ELSE {a.port}}

\* Mutant: Start leaves the configured address in place.
RecordAddressSkipped(hs, a) == hs

\* hs.address = l.Addr().String()
RecordAddress(hs, a) == [hs EXCEPT !.address = a]

\* HttpServer.Address()
Address == server.address

UseTLS(o) == o.CertificateFile # "" /\ o.KeyFile # ""

\* A lifecycle event of a path: a hook invocation (phase, index) or the return
\* of the server's Start or Stop, with the state of the listener at that moment.
LifeEvent(phase, i) == [phase |-> phase, i |-> i, listener |-> listener.state]
Logged(p, phase, i) == [log EXCEPT ![p] = Append(@, LifeEvent(phase, i))]

NumHooks(phase) == opts[phase]
\* The label a path reaches when it gets to the loop over a phase's hooks.
Enter(phase, next) == IF NumHooks(phase) = 0 THEN next ELSE phase

\* The serve goroutine starts serving, or finds the server already shut down.
ServeBegin ==
  /\ servePc = "ready"
  /\ IF drainPc \in {"draining", "ack", "done"}
     THEN /\ servePc' = "done"
          /\ listener' = [listener EXCEPT !.state = "closed"]
     ELSE /\ servePc' = IF UseTLS(server.options) THEN "ServeTLS" ELSE "Serve"
          /\ UNCHANGED listener
  /\ UNCHANGED <<svcVars, lifeVars, server, drainPc, drainCh,
                 shutdownErr, elapsed, inflight, hsStopCalls, exitRecv, acks, hsRet, envVars>>

Serving == servePc \in {"Serve", "ServeTLS"}

\* Serve returns http.ErrServerClosed once the listener is closed.
ServeReturn ==
  /\ Serving
  /\ listener.state = "closed"
  /\ servePc' = "done"
  /\ UNCHANGED <<svcVars, lifeVars, server, listener, drainPc, drainCh, shutdownErr,
                 elapsed, inflight, hsStopCalls, exitRecv, acks, hsRet, envVars>>

\* A request reaches the serving listener and its handler starts.
RequestArrive ==
  /\ Serving
  /\ listener.state = "open"
  /\ inflight < MaxInflight
  /\ inflight' = inflight + 1
  /\ UNCHANGED <<svcVars, lifeVars, server, listener, servePc, drainPc, drainCh,
                 shutdownErr, elapsed, hsStopCalls, exitRecv, acks, hsRet, envVars>>

\* A handler returns.
HandlerComplete ==
  /\ inflight > 0
  /\ inflight' = inflight - 1
  /\ UNCHANGED <<svcVars, lifeVars, server, listener, servePc, drainPc, drainCh,
                 shutdownErr, elapsed, hsStopCalls, exitRecv, acks, hsRet, envVars>>

\* HttpServer.Stop is entered by path p: ch := make(chan error). On the nil
\* server of a service that was never started, reading hs.exit panics.
HsStopCall(p) ==
  /\ pc[p] = "ServerStop"
  /\ pc' = [pc EXCEPT ![p] = IF server.nil THEN "panic" ELSE "ExitSend"]
  /\ hsStopCalls' = hsStopCalls + 1
  /\ UNCHANGED <<svcVars, idx, log, startRet, stopRet, server, listener, servePc,
                 drainPc, drainCh, shutdownErr, elapsed, inflight, exitRecv, acks,
                 hsRet, envVars>>

\* hs.exit <- ch in Stop meets ch := <-hs.exit in the drain goroutine.
ExitRendezvous(p) ==
  /\ pc[p] = "ExitSend"
  /\ drainPc = "recv"
  /\ pc' = [pc EXCEPT ![p] = "AwaitAck"]
  /\ drainPc' = "shutdown"
  /\ drainCh' = p
  /\ exitRecv' = [exitRecv EXCEPT ![p] = @ + 1]
  /\ UNCHANGED <<svcVars, idx, log, startRet, stopRet, server, listener, servePc,
                 shutdownErr, elapsed, inflight, hsStopCalls, acks, hsRet, envVars>>

\* Mutant: the drain goroutine acknowledges without calling srv.Shutdown.
AckBeforeShutdown ==
  /\ drainPc = "shutdown"
  /\ drainPc' = "ack"
  /\ UNCHANGED <<svcVars, lifeVars, server, listener, servePc, drainCh, shutdownErr,
                 elapsed, inflight, hsStopCalls, exitRecv, acks, hsRet, envVars>>

\* srv.Shutdown(ctxShutDown) starts: the listeners the serve loop tracks are closed.
ShutdownBegin ==
  /\ drainPc = "shutdown"
  /\ drainPc' = "draining"
  /\ elapsed' = 0
  /\ IF Serving /\ listener.state = "open"
     THEN listener' = [listener EXCEPT !.state = "closed"]
     ELSE UNCHANGED listener
  /\ UNCHANGED <<svcVars, lifeVars, server, servePc, drainCh,
                 shutdownErr, inflight, hsStopCalls, exitRecv, acks, hsRet, envVars>>

\* The deadline of ctxShutDown, options.ShutdownTimeout seconds after
\* ShutdownBegin, passes.
DeadlineExpire ==
  /\ drainPc = "draining"
  /\ elapsed < server.options.ShutdownTimeout
  /\ elapsed' = server.options.ShutdownTimeout
  /\ UNCHANGED <<svcVars, lifeVars, server, listener, servePc, drainPc, drainCh,
                 shutdownErr, inflight, hsStopCalls, exitRecv, acks, hsRet, envVars>>

\* Mutant: srv.Shutdown is called with a context that has no deadline.
ShutdownResultsWithoutDeadline ==
  IF inflight = 0 /\ ~Serving THEN {Nil} ELSE {}

\* srv.Shutdown returns: nil once the serve loop tracks no listener and no
\* request is in flight, the context's error once the deadline has passed.
ShutdownResults ==
  (IF inflight = 0 /\ ~Serving THEN {Nil} ELSE {})
    \cup (IF elapsed = server.options.ShutdownTimeout THEN {"deadline"} ELSE {})

ShutdownReturn ==
  /\ drainPc = "draining"
  /\ \E e \in ShutdownResults : shutdownErr' = e
  /\ drainPc' = "ack"
  /\ UNCHANGED <<svcVars, lifeVars, server, listener, servePc, drainCh, elapsed,
                 inflight, hsStopCalls, exitRecv, acks, hsRet, envVars>>

\* ch <- nil: what the drain goroutine sends on the reply channel.
AckValue(err) == Nil

\* ch <- nil in the drain goroutine meets <-ch in Stop; Stop returns the value.
AckRendezvous(p) ==
  /\ drainPc = "ack"
  /\ drainCh = p
  /\ pc[p] = "AwaitAck"
  /\ drainPc' = "done"
  /\ acks' = [acks EXCEPT ![p] = @ + 1]
  /\ hsRet' = [hsRet EXCEPT ![p] = AckValue(shutdownErr)]
  /\ pc' = [pc EXCEPT ![p] = "ServerStopped"]
  /\ UNCHANGED <<svcVars, idx, log, startRet, stopRet, server, listener, servePc,
                 drainCh, shutdownErr, elapsed, inflight, hsStopCalls, exitRecv, envVars>>

\* =================================================================
\* Service (service.go)
\* =================================================================

\* Mutant: the loop over a phase's hooks stops one hook early.
HookAdvanceOffByOne(p, phase, next) ==
  IF idx[p] + 1 >= NumHooks(phase)
  THEN /\ pc' = [pc EXCEPT ![p] = next]
       /\ idx' = [idx EXCEPT ![p] = 1]
  ELSE /\ pc' = pc
       /\ idx' = [idx EXCEPT ![p] = @ + 1]

\* pc and idx of path p after hook idx[p] of phase succeeded.
HookAdvance(p, phase, next) ==
  IF idx[p] = NumHooks(phase)
  THEN /\ pc' = [pc EXCEPT ![p] = next]
       /\ idx' = [idx EXCEPT ![p] = 1]
  ELSE /\ pc' = pc
       /\ idx' = [idx EXCEPT ![p] = @ + 1]

\* The caller calls Service.Start.
StartCall ==
  /\ pc["caller"] = "init"
  /\ pc' = [pc EXCEPT !["caller"] = Enter("BeforeStart", "ServerStart")]
  /\ UNCHANGED <<svcVars, idx, log, startRet, stopRet, hsVars, envVars>>

\* Mutant: a failing BeforeStart hook is noted but the loop goes on.
BeforeStartHookNotAborting ==
  /\ pc["caller"] = "BeforeStart"
  /\ log' = Logged("caller", "BeforeStart", idx["caller"])
  /\ HookAdvance("caller", "BeforeStart", "ServerStart")
  /\ \E ok \in BOOLEAN : startRet' = IF ok THEN startRet ELSE "hookErr"
  /\ UNCHANGED <<svcVars, stopRet, hsVars, envVars>>

\* for _, fn := range s.opts.BeforeStart: one hook runs.
BeforeStartHook ==
  /\ pc["caller"] = "BeforeStart"
  /\ log' = Logged("caller", "BeforeStart", idx["caller"])
  /\ \E ok \in BOOLEAN :
       IF ok
       THEN /\ HookAdvance("caller", "BeforeStart", "ServerStart")
            /\ UNCHANGED startRet
       ELSE /\ pc' = [pc EXCEPT !["caller"] = "startFailed"]
            /\ startRet' = "hookErr"
            /\ UNCHANGED idx
  /\ UNCHANGED <<svcVars, stopRet, hsVars, envVars>>

\* Mutant: Service.Start notes the bind error but goes on to the AfterStart hooks.
ServerStartIgnoringBindError ==
  /\ pc["caller"] = "ServerStart"
  /\ server' = NewHttpServer(ServerOptions)
  /\ startRet' = "bindErr"
  /\ pc' = [pc EXCEPT !["caller"] = Enter("AfterStart", "SpawnWatcher")]
  /\ UNCHANGED <<svcVars, idx, log, stopRet, listener, servePc, drainPc, drainCh,
                 shutdownErr, elapsed, inflight, hsStopCalls, exitRecv, acks, hsRet,
                 envVars>>

\* s.server = server.NewHttpServer(...); s.server.Start(): the listener is
\* bound, the address recorded and both goroutines launched, or the bind fails.
ServerStart ==
  /\ pc["caller"] = "ServerStart"
  /\ LET hs == NewHttpServer(ServerOptions)
     IN \/ /\ server' = hs
           /\ startRet' = "bindErr"
           /\ pc' = [pc EXCEPT !["caller"] = "startFailed"]
           /\ UNCHANGED <<listener, servePc, drainPc, log>>
        \/ \E a \in ListenAddrs(hs.address) :
             /\ server' = RecordAddress(hs, a)
             /\ listener' = [state |-> "open", addr |-> a]
             /\ servePc' = "ready"
             /\ drainPc' = "recv"
             /\ log' = [log EXCEPT !["caller"] =
                         Append(@, [phase |-> "ServerStart", i |-> 0, listener |-> "open"])]
             /\ pc' = [pc EXCEPT !["caller"] = Enter("AfterStart", "SpawnWatcher")]
             /\ UNCHANGED startRet
  /\ UNCHANGED <<svcVars, idx, stopRet, drainCh, shutdownErr, elapsed, inflight,
                 hsStopCalls, exitRecv, acks, hsRet, envVars>>

\* Mutant: a failing AfterStart hook makes Start close the listener again.
AfterStartHookStoppingServer ==
  /\ pc["caller"] = "AfterStart"
  /\ log' = Logged("caller", "AfterStart", idx["caller"])
  /\ \E ok \in BOOLEAN :
       IF ok
       THEN /\ HookAdvance("caller", "AfterStart", "SpawnWatcher")
            /\ UNCHANGED <<startRet, listener>>
       ELSE /\ pc' = [pc EXCEPT !["caller"] = "startFailed"]
            /\ startRet' = "hookErr"
            /\ listener' = [listener EXCEPT !.state = "closed"]
            /\ UNCHANGED idx
  /\ UNCHANGED <<svcVars, stopRet, server, servePc, drainPc, drainCh, shutdownErr,
                 elapsed, inflight, hsStopCalls, exitRecv, acks, hsRet, envVars>>

\* Mutant: the watcher is launched before the AfterStart hooks run, so it is
\* there when one of them fails.
AfterStartHookAfterSpawn ==
  /\ pc["caller"] = "AfterStart"
  /\ log' = Logged("caller", "AfterStart", idx["caller"])
  /\ \E ok \in BOOLEAN :
       IF ok
       THEN /\ HookAdvance("caller", "AfterStart", "SpawnWatcher")
            /\ UNCHANGED startRet
       ELSE /\ pc' = [pc EXCEPT !["caller"] = "startFailed", !["watcher"] = "select"]
            /\ startRet' = "hookErr"
            /\ UNCHANGED idx
  /\ UNCHANGED <<svcVars, stopRet, hsVars, envVars>>

\* for _, fn := range s.opts.AfterStart: one hook runs.
AfterStartHook ==
  /\ pc["caller"] = "AfterStart"
  /\ log' = Logged("caller", "AfterStart", idx["caller"])
  /\ \E ok \in BOOLEAN :
       IF ok
       THEN /\ HookAdvance("caller", "AfterStart", "SpawnWatcher")
            /\ UNCHANGED startRet
       ELSE /\ pc' = [pc EXCEPT !["caller"] = "startFailed"]
            /\ startRet' = "hookErr"
            /\ UNCHANGED idx
  /\ UNCHANGED <<svcVars, stopRet, hsVars, envVars>>

\* The watcher goroutine is launched and Start returns nil.
SpawnWatcher ==
  /\ pc["caller"] = "SpawnWatcher"
  /\ pc' = [pc EXCEPT !["caller"] = "running", !["watcher"] = "select"]
  /\ startRet' = Nil
  /\ UNCHANGED <<svcVars, idx, log, stopRet, hsVars, envVars>>

\* signal.Notify is in effect once Start has passed it with opts.Signal set.
Notified == opts.Signal /\ pc["watcher"] # "none"

\* Mutant: the watcher's select has no case for the context.
WatcherWakeOnSignalOnly ==
  /\ pc["watcher"] = "select"
  /\ sigCh > 0
  /\ sigCh' = sigCh - 1
  /\ UNCHANGED ctxDone
  /\ pc' = [pc EXCEPT !["watcher"] = Enter("BeforeStop", "ServerStop")]
  /\ UNCHANGED <<svcVars, idx, log, startRet, stopRet, hsVars>>

\* The watcher's select: a signal is received or the context is done; the
\* watcher then calls Service.Stop.
WatcherWake ==
  /\ pc["watcher"] = "select"
  /\ \/ /\ sigCh > 0
        /\ sigCh' = sigCh - 1
        /\ UNCHANGED ctxDone
     \/ /\ ctxDone
        /\ UNCHANGED <<sigCh, ctxDone>>
  /\ pc' = [pc EXCEPT !["watcher"] = Enter("BeforeStop", "ServerStop")]
  /\ UNCHANGED <<svcVars, idx, log, startRet, stopRet, hsVars>>

\* The caller calls Service.Stop after Start has returned nil.
StopCall ==
  /\ pc["caller"] = "running"
  /\ pc' = [pc EXCEPT !["caller"] = Enter("BeforeStop", "ServerStop")]
  /\ UNCHANGED <<svcVars, idx, log, startRet, stopRet, hsVars, envVars>>

\* Mutant: a failing BeforeStop hook is noted but the loop goes on.
BeforeStopHookNotAborting(p) ==
  /\ pc[p] = "BeforeStop"
  /\ log' = Logged(p, "BeforeStop", idx[p])
  /\ HookAdvance(p, "BeforeStop", "ServerStop")
  /\ \E ok \in BOOLEAN : stopRet' = IF ok THEN stopRet ELSE [stopRet EXCEPT ![p] = "hookErr"]
  /\ UNCHANGED <<svcVars, startRet, hsVars, envVars>>

\* for _, fn := range s.opts.BeforeStop: one hook runs on path p.
BeforeStopHook(p) ==
  /\ pc[p] = "BeforeStop"
  /\ log' = Logged(p, "BeforeStop", idx[p])
  /\ \E ok \in BOOLEAN :
       IF ok
       THEN /\ HookAdvance(p, "BeforeStop", "ServerStop")
            /\ UNCHANGED stopRet
       ELSE /\ pc' = [pc EXCEPT ![p] = "returned"]
            /\ stopRet' = [stopRet EXCEPT ![p] = "hookErr"]
            /\ UNCHANGED idx
  /\ UNCHANGED <<svcVars, startRet, hsVars, envVars>>

\* if err := s.Server().Stop(); err != nil { return err }
ServerStopped(p) ==
  /\ pc[p] = "ServerStopped"
  /\ log' = Logged(p, "ServerStop", 0)
  /\ IF hsRet[p] # Nil
     THEN /\ pc' = [pc EXCEPT ![p] = "returned"]
          /\ stopRet' = [stopRet EXCEPT ![p] = hsRet[p]]
     ELSE /\ pc' = [pc EXCEPT ![p] = Enter("AfterStop", "TracerShutdown")]
          /\ UNCHANGED stopRet
  /\ UNCHANGED <<svcVars, idx, startRet, hsVars, envVars>>

\* for _, fn := range s.opts.AfterStop: one hook runs on path p.
AfterStopHook(p) ==
  /\ pc[p] = "AfterStop"
  /\ log' = Logged(p, "AfterStop", idx[p])
  /\ \E ok \in BOOLEAN :
       IF ok
       THEN /\ HookAdvance(p, "AfterStop", "TracerShutdown")
            /\ UNCHANGED stopRet
       ELSE /\ pc' = [pc EXCEPT ![p] = "returned"]
            /\ stopRet' = [stopRet EXCEPT ![p] = "hookErr"]
            /\ UNCHANGED idx
  /\ UNCHANGED <<svcVars, startRet, hsVars, envVars>>

\* if s.traceProvider != nil { return s.traceProvider.Shutdown(ctx) }; return nil
TracerShutdown(p) ==
  /\ pc[p] = "TracerShutdown"
  /\ pc' = [pc EXCEPT ![p] = "returned"]
  /\ IF traceProvider # 0
     THEN /\ tpShutdown' = [tpShutdown EXCEPT ![traceProvider] = @ + 1]
          /\ \E e \in {Nil, "tpErr"} : stopRet' = [stopRet EXCEPT ![p] = e]
     ELSE /\ stopRet' = [stopRet EXCEPT ![p] = Nil]
          /\ UNCHANGED tpShutdown
  /\ UNCHANGED <<opts, handlers, tpCreated, traceProvider, served, idx, log,
                 startRet, hsVars, envVars>>

\* ----------------------------------------------------------- environment
\* The configured context is cancelled. Only the watcher's select reads it,
\* so a cancellation after the watcher has left the select changes nothing.
CancelContext ==
  /\ ~ctxDone
  /\ pc["watcher"] \in {"none", "select"}
  /\ ctxDone' = TRUE
  /\ UNCHANGED <<svcVars, lifeVars, hsVars, sigCh>>

\* A termination signal is delivered to the watcher's buffered channel. Only
\* the watcher's select receives from it.
DeliverSignal ==
  /\ Notified
  /\ pc["watcher"] = "select"
  /\ sigCh = 0
  /\ sigCh' = 1
  /\ UNCHANGED <<svcVars, lifeVars, hsVars, ctxDone>>

\* ------------------------------------------------------------ specification
\* Every phase has the same number of hooks; the service is served without
\* TLS; port, signal handling and tracing are any of their values.
HookCounts == 0..MaxHooks

\* Everything but the server.
InitService ==
  /\ \E n \in HookCounts, port \in ConfigPorts, sig \in BOOLEAN, tr \in BOOLEAN :
       opts = [BeforeStart |-> n, AfterStart |-> n, BeforeStop |-> n, AfterStop |-> n,
               Port |-> port, CertificateFile |-> "", KeyFile |-> "",
               Signal |-> sig, Sampler |-> tr, Exporter |-> tr]
  /\ handlers = <<>>
  /\ tpCreated = 0
  /\ traceProvider = 0
  /\ tpShutdown = [i \in 1..MaxEndpoints |-> 0]
  /\ served = [ep |-> 0, effects |-> <<>>]
  /\ pc = [p \in Procs |-> IF p = "caller" THEN "init" ELSE "none"]
  /\ idx = [p \in Procs |-> 1]
  /\ log = [p \in Procs |-> <<>>]
  /\ startRet = "none"
  /\ stopRet = [p \in Procs |-> "none"]
  /\ listener = [state |-> "none", addr |-> NoAddr]
  /\ servePc = "none"
  /\ drainPc = "none"
  /\ drainCh = "none"
  /\ shutdownErr = "none"
  /\ elapsed = 0
  /\ inflight = 0
  /\ hsStopCalls = 0
  /\ exitRecv = [p \in Procs |-> 0]
  /\ acks = [p \in Procs |-> 0]
  /\ hsRet = [p \in Procs |-> "none"]
  /\ ctxDone = FALSE
  /\ sigCh = 0

Init == InitService /\ server = NilServer

RegisterEndpoints ==
  \E n \in 1..MaxEndpoints : \E eps \in [1..n -> TestEndpoints] : Endpoints(eps)

\* The steps of Start, Stop, the goroutines and the environment.
Lifecycle ==
  \/ StartCall
  \/ BeforeStartHook
  \/ ServerStart
  \/ AfterStartHook
  \/ SpawnWatcher
  \/ WatcherWake
  \/ StopCall
  \/ \E p \in Procs : BeforeStopHook(p)
  \/ \E p \in Procs : HsStopCall(p)
  \/ \E p \in Procs : ExitRendezvous(p)
  \/ \E p \in Procs : AckRendezvous(p)
  \/ \E p \in Procs : ServerStopped(p)
  \/ \E p \in Procs : AfterStopHook(p)
  \/ \E p \in Procs : TracerShutdown(p)
  \/ ServeBegin
  \/ ServeReturn
  \/ RequestArrive
  \/ HandlerComplete
  \/ ShutdownBegin
  \/ DeadlineExpire
  \/ ShutdownReturn
  \/ CancelContext
  \/ DeliverSignal

Next == RegisterEndpoints \/ Lifecycle

Spec == Init /\ [][Next]_vars

\* The scheduler runs every path that can take a step, every blocked channel
\* operation whose partner is ready completes, hooks return and time passes.
\* The caller's calls, requests, handlers' completion, cancellation and
\* signals are not forced.
Fairness ==
  /\ WF_vars(BeforeStartHook)
  /\ WF_vars(ServerStart)
  /\ WF_vars(AfterStartHook)
  /\ WF_vars(SpawnWatcher)
  /\ WF_vars(WatcherWake)
  /\ \A p \in Procs :
       /\ WF_vars(BeforeStopHook(p))
       /\ WF_vars(HsStopCall(p))
       /\ WF_vars(ExitRendezvous(p))
       /\ WF_vars(AckRendezvous(p))
       /\ WF_vars(ServerStopped(p))
       /\ WF_vars(AfterStopHook(p))
       /\ WF_vars(TracerShutdown(p))
  /\ WF_vars(ServeBegin)
  /\ WF_vars(ServeReturn)
  /\ WF_vars(ShutdownBegin)
  /\ WF_vars(DeadlineExpire)
  /\ WF_vars(ShutdownReturn)

\* The life cycle of a service on its default port, without tracing, that
\* registers no endpoint, under fair scheduling.
PlainInit == Init /\ opts.Port = 0 /\ ~TracingConfigured

FairSpec == PlainInit /\ [][Lifecycle]_vars /\ Fairness

\* Endpoint composition alone: one endpoint with any decorator list is
\* registered and requests are served by its composed handler.
EndpointInit ==
  /\ Init
  /\ opts.BeforeStart = 0
  /\ opts.Port = 0
  /\ ~opts.Signal

RegisterOne == \E ep \in AllEndpoints : handlers = <<>> /\ Endpoints(<<ep>>)

EndpointNext == RegisterOne \/ ServeRequest

EndpointSpec == EndpointInit /\ [][EndpointNext]_vars

\* =================================================================
\* Claims
\* =================================================================

\* The decorator and handler side effects of the last request served.
IsStep(e) == e.Type \in {Before, After, "Handler"}
ServedSteps == SelectSeq(served.effects, IsStep)

IsBefore(d) == d.Type = Before
IsAfter(d) == d.Type = After
ListOrder(ds) ==
  SelectSeq(ds, IsBefore) \o <<[Type |-> "Handler", fn |-> 0]>> \o SelectSeq(ds, IsAfter)

\* C1: for every request to a composed handler, the Before-decorators run in
\* list order, then the base handler, then the After-decorators in list order.
C1_DecoratorsRunInListOrder ==
  served.ep # 0 => ServedSteps = ListOrder(handlers[served.ep].ep.Decorators)

\* ---------------------------------------------------------------------
\* HttpServer.Stop of path p has returned.
HsStopReturned(p) == hsRet[p] # "none"

\* C2: a Stop call whose drain failed (srv.Shutdown returned an error)
\* returns that error; it returns nil only when the drain succeeded.
C2_StopReturnsDrainError ==
  \A p \in Procs : HsStopReturned(p) => hsRet[p] = shutdownErr

\* ---------------------------------------------------------------------
ServiceStopped == drainPc = "done"
WatcherTerminated == pc["watcher"] \in {"none", "returned"}
AllPathsTerminated ==
  /\ WatcherTerminated
  /\ servePc = "done"
  /\ drainPc = "done"
  /\ pc["caller"] \notin {"BeforeStop", "ServerStop", "ExitSend", "AwaitAck",
                          "ServerStopped", "AfterStop", "TracerShutdown"}

\* C3: once the service has been stopped, every path launched by Start (serve
\* loop, drain path, watcher) eventually terminates; none stays blocked on the
\* select or on the rendezvous channel.
C3_StoppedServiceLeaksNoPath == ServiceStopped ~> AllPathsTerminated

\* ---------------------------------------------------------------------
StopLabels == {"BeforeStop", "ServerStop", "ExitSend", "AwaitAck", "ServerStopped",
               "AfterStop", "TracerShutdown", "returned"}
StartReturnedNil == startRet = Nil
CallerCalledStop == pc["caller"] \in StopLabels
WatcherInvokedStop == pc["watcher"] \in StopLabels

\* The hooks of a phase that path p has invoked.
HookRuns(p, phase) == {i \in 1..Len(log[p]) : log[p][i].phase = phase}
PhaseRan(p, phase) == Cardinality(HookRuns(p, phase)) = NumHooks(phase)

\* Stop as invoked by the watcher ran all BeforeStop hooks, stopped the
\* drained server and ran all AfterStop hooks.
WatcherStopRanThrough ==
  /\ WatcherInvokedStop
  /\ PhaseRan("watcher", "BeforeStop")
  /\ HsStopReturned("watcher")
  /\ drainPc = "done"
  /\ PhaseRan("watcher", "AfterStop")

\* C4 as stated: once Start has returned nil and the context is done, then,
\* unless the caller calls Stop, the watcher eventually invokes Stop and the
\* BeforeStop hooks run, the server is drained and stopped and the AfterStop
\* hooks run.
C4_CancelledContextStopsService ==
  (StartReturnedNil /\ ctxDone) ~> (CallerCalledStop \/ WatcherStopRanThrough)

\* C4 as amended: the watcher eventually invokes Stop, which runs through
\* unless one of its BeforeStop or AfterStop hooks fails.
C4_CancelledContextInvokesStop ==
  (StartReturnedNil /\ ctxDone) ~>
     (CallerCalledStop
        \/ (WatcherInvokedStop
              /\ (WatcherStopRanThrough \/ stopRet["watcher"] = "hookErr")))

C4_Witness ==
  /\ ctxDone
  /\ ~CallerCalledStop
  /\ WatcherStopRanThrough
  /\ opts.BeforeStop > 0
  /\ pc["watcher"] = "returned"

\* ---------------------------------------------------------------------
PhaseEvents(phase) == [i \in 1..NumHooks(phase) |-> <<phase, i>>]
FullCycle ==
  PhaseEvents("BeforeStart") \o <<<<"ServerStart", 0>>>> \o PhaseEvents("AfterStart")
    \o PhaseEvents("BeforeStop") \o <<<<"ServerStop", 0>>>> \o PhaseEvents("AfterStop")
Invocations(p) == [i \in 1..Len(log[p]) |-> <<log[p][i].phase, log[p][i].i>>]

\* Start succeeded, no hook failed, no cancellation, no signal, and the
\* caller's Stop has returned.
QuietCycleDone ==
  /\ StartReturnedNil
  /\ stopRet["caller"] \notin {"none", "hookErr"}
  /\ ~ctxDone
  /\ sigCh = 0
  /\ pc["watcher"] = "select"

\* C5: after an undisturbed Start and one Stop without hook failures, every
\* hook has been invoked exactly once, in the order BeforeStart hooks, server
\* start, AfterStart hooks, BeforeStop hooks, server stop, AfterStop hooks.
C5_FullCycleRunsHooksOnceInOrder ==
  QuietCycleDone => Invocations("caller") = FullCycle

C5_Witness ==
  /\ QuietCycleDone
  /\ opts.BeforeStart = MaxHooks
  /\ Len(log["caller"]) = 4 * MaxHooks + 2

\* ---------------------------------------------------------------------
\* C6: with tracing configured, one provider is created however many
\* endpoints are registered, every composed handler uses it, and a successful
\* Stop has shut down every created provider exactly once.
C6_OneProviderSharedAndShutDown ==
  TracingConfigured =>
    /\ Len(handlers) >= 1 => tpCreated = 1
    /\ \A k \in 1..Len(handlers) : handlers[k].tp = 1
    /\ \A p \in Procs :
         stopRet[p] = Nil => \A t \in 1..tpCreated : tpShutdown[t] = 1

\* ---------------------------------------------------------------------
\* C7: a single HttpServer.Stop call on a running server eventually returns,
\* also when a handler never completes.
C7_SingleStopEventuallyReturns ==
  /\ (pc["caller"] = "ExitSend" /\ hsStopCalls = 1)
        ~> (HsStopReturned("caller") \/ hsStopCalls > 1)
  /\ (pc["watcher"] = "ExitSend" /\ hsStopCalls = 1)
        ~> (HsStopReturned("watcher") \/ hsStopCalls > 1)

C7_Witness ==
  /\ hsStopCalls = 1
  /\ HsStopReturned("caller")
  /\ inflight > 0
  /\ shutdownErr = "deadline"

\* ---------------------------------------------------------------------
\* C8: per Stop call at most one shutdown request and one acknowledgment are
\* handed over, the acknowledgment only after srv.Shutdown has returned, and a
\* Stop call that has returned has sent its request and received its
\* acknowledgment.
C8_RendezvousProtocol ==
  \A p \in Procs :
    /\ exitRecv[p] <= 1
    /\ acks[p] <= exitRecv[p]
    /\ acks[p] > 0 => shutdownErr # "none"
    /\ HsStopReturned(p) <=> acks[p] = 1
    /\ pc[p] \in {"ServerStopped", "AfterStop", "TracerShutdown"} => acks[p] = 1

C8_Witness == \E p \in Procs : HsStopReturned(p) /\ acks[p] = 1 /\ exitRecv[p] = 1

\* ---------------------------------------------------------------------
\* C9: every AfterStart hook is invoked with the listener bound and open, and
\* every BeforeStop hook is invoked before the listener stops accepting.
C9_HooksSeeOpenListener ==
  \A p \in Procs : \A i \in 1..Len(log[p]) :
    log[p][i].phase \in {"AfterStart", "BeforeStop"} => log[p][i].listener = "open"

\* ---------------------------------------------------------------------
HsStartReturnedNil == ~server.nil /\ listener.state # "none"

\* C10: once HttpServer.Start has returned nil, Address() is the listener's
\* own address, with a non-zero port, and not the configured placeholder; and
\* Start has returned while the serve loop and the drain path it launched are
\* still there.
C10_AddressIsBoundAddress ==
  /\ HsStartReturnedNil =>
       /\ Address = listener.addr
       /\ Address.port # 0
       /\ Address # NewHttpServer(ServerOptions).address
  /\ pc["caller"] \in {"AfterStart", "SpawnWatcher"} =>
       /\ HsStartReturnedNil
       /\ servePc \in {"ready", "Serve", "ServeTLS"}
       /\ drainPc = "recv"

C10_Witness ==
  /\ HsStartReturnedNil
  /\ opts.Port < 0
  /\ Address.port \in EphemeralPorts
  /\ pc["caller"] = "SpawnWatcher"
  /\ servePc = "Serve"

\* =================================================================
\* Stop outside the supported life cycle
\* =================================================================

\* The event of a Stop call the caller makes outside Start ; Stop.
StopMarks == {"StopBeforeStart", "StopAfterFailedStart", "StopAgain"}
Marked(mark) ==
  [log EXCEPT !["caller"] = Append(@, [phase |-> mark, i |-> 0, listener |-> listener.state])]

\* The caller calls Service.Stop on a service it never started.
StopBeforeStart ==
  /\ pc["caller"] = "init"
  /\ pc' = [pc EXCEPT !["caller"] = Enter("BeforeStop", "ServerStop")]
  /\ log' = Marked("StopBeforeStart")
  /\ UNCHANGED <<svcVars, idx, startRet, stopRet, hsVars, envVars>>

\* The caller calls Service.Stop after Start has returned an error.
StopAfterFailedStart ==
  /\ pc["caller"] = "startFailed"
  /\ pc' = [pc EXCEPT !["caller"] = Enter("BeforeStop", "ServerStop")]
  /\ log' = Marked("StopAfterFailedStart")
  /\ UNCHANGED <<svcVars, idx, startRet, stopRet, hsVars, envVars>>

\* The caller calls Service.Stop a second time, after its first Stop has
\* stopped the server and returned.
StopAgain ==
  /\ pc["caller"] = "returned"
  /\ startRet = Nil
  /\ hsRet["caller"] # "none"
  /\ \A i \in 1..Len(log["caller"]) : log["caller"][i].phase \notin StopMarks
  /\ pc' = [pc EXCEPT !["caller"] = Enter("BeforeStop", "ServerStop")]
  /\ log' = Marked("StopAgain")
  /\ UNCHANGED <<svcVars, idx, startRet, stopRet, hsVars, envVars>>

MisuseNext == Lifecycle \/ StopBeforeStart \/ StopAfterFailedStart \/ StopAgain

MisuseSpec == PlainInit /\ [][MisuseNext]_vars

\* The caller's Stop call is blocked on hs.exit, from which no drain
\* goroutine will receive any more.
CallerBlockedOnExit == pc["caller"] = "ExitSend" /\ drainPc # "recv"

\* C11: a Stop before Start, or a second Stop after a completed one, is a
\* no-op: it does not crash, does not block on the rendezvous channel, and
\* changes nothing (no hook runs).
C11_StopOutsideLifeCycleIsNoOp ==
  /\ pc["caller"] # "panic"
  /\ \A i \in 1..Len(log["caller"]) :
       log["caller"][i].phase \in StopMarks =>
         /\ Len(log["caller"]) = i
         /\ ~CallerBlockedOnExit

\* -----------------------------------------------------------------
\* Failures of Start
\* -----------------------------------------------------------------

Last(sq) == sq[Len(sq)]

\* Start returned the error of a hook of the given phase: that hook is the
\* last event of the caller's path.
StartFailedIn(phase) ==
  /\ startRet = "hookErr"
  /\ log["caller"] # <<>>
  /\ Last(log["caller"]).phase = phase

\* The first k hooks of a phase, each once, in order.
HookPrefix(phase, k) == [i \in 1..k |-> <<phase, i>>]

\* C12: if the k-th BeforeStart hook returns an error, Start returns that
\* error, BeforeStart hooks 1..k have run exactly once in order and nothing
\* after them has run, no server is constructed or bound, no AfterStart hook
\* has run and no watcher is spawned.
C12_BeforeStartFailFast ==
  StartFailedIn("BeforeStart") =>
    /\ pc["caller"] = "startFailed"
    /\ Invocations("caller") = HookPrefix("BeforeStart", Last(log["caller"]).i)
    /\ server.nil
    /\ listener.state = "none"
    /\ servePc = "none" /\ drainPc = "none"
    /\ HookRuns("caller", "AfterStart") = {}
    /\ pc["watcher"] = "none"

\* The first of several BeforeStart hooks failed, and the context was
\* cancelled afterwards.
C12_Witness ==
  /\ StartFailedIn("BeforeStart")
  /\ Len(log["caller"]) < NumHooks("BeforeStart")
  /\ ctxDone

\* C13: if the listener cannot be created, HttpServer.Start returns the error
\* without launching the serve path or the drain path and without changing
\* the recorded address, and Service.Start returns it at once: no AfterStart
\* hook runs and no watcher is spawned.
C13_BindFailureIsSynchronous ==
  startRet = "bindErr" =>
    /\ pc["caller"] = "startFailed"
    /\ ~server.nil
    /\ listener.state = "none"
    /\ servePc = "none" /\ drainPc = "none"
    /\ Address = NewHttpServer(ServerOptions).address
    /\ HookRuns("caller", "AfterStart") = {}
    /\ Invocations("caller") = PhaseEvents("BeforeStart")
    /\ pc["watcher"] = "none"

\* The bind failed in a service that has BeforeStart and AfterStart hooks.
C13_Witness ==
  /\ startRet = "bindErr"
  /\ NumHooks("AfterStart") > 0
  /\ PhaseRan("caller", "BeforeStart")

\* C17: if an AfterStart hook returns an error, Start returns that error, the
\* remaining AfterStart hooks are skipped, and the server Start has just
\* started is left bound and serving: its listener is open, the serve loop is
\* there and the drain path still waits for a shutdown request.
C17_AfterStartFailFastNoRollback ==
  StartFailedIn("AfterStart") =>
    /\ pc["caller"] = "startFailed"
    /\ Invocations("caller") =
         PhaseEvents("BeforeStart") \o <<<<"ServerStart", 0>>>>
           \o HookPrefix("AfterStart", Last(log["caller"]).i)
    /\ HsStartReturnedNil
    /\ listener.state = "open"
    /\ servePc \in {"ready", "Serve", "ServeTLS"}
    /\ drainPc = "recv"
    /\ hsStopCalls = 0

\* The first of several AfterStart hooks failed and the server left behind
\* is handling a request.
C17_Witness ==
  /\ StartFailedIn("AfterStart")
  /\ Cardinality(HookRuns("caller", "AfterStart")) < NumHooks("AfterStart")
  /\ inflight > 0

\* C20: the watcher is spawned if and only if Start returns nil; after a
\* failed Start there is no watcher, so no Stop is ever invoked by one, not
\* even when the context is cancelled later.
C20_WatcherIffStartReturnedNil ==
  /\ pc["watcher"] # "none" <=> startRet = Nil
  /\ startRet \notin {"none", Nil} =>
       /\ log["watcher"] = <<>>
       /\ stopRet["watcher"] = "none"
       /\ hsStopCalls = 0

\* An AfterStart hook failed, the server is running, and the context has
\* been cancelled.
C20_Witness ==
  /\ StartFailedIn("AfterStart")
  /\ listener.state = "open"
  /\ ctxDone
  /\ pc["watcher"] = "none"

\* -----------------------------------------------------------------
\* Drain, failures of Stop, concurrent Stops
\* -----------------------------------------------------------------

\* C14: when HttpServer.Stop returns, no handler is still being served: the
\* requests still in flight at the deadline have been closed by force.
C14_StopLeavesNoRequestInFlight ==
  \A p \in Procs : HsStopReturned(p) => inflight = 0

\* Stop on path p returned the error of a hook of the given phase.
StopFailedIn(p, phase) ==
  /\ stopRet[p] = "hookErr"
  /\ log[p] # <<>>
  /\ Last(log[p]).phase = phase

\* The path other than p has not invoked Stop.
OtherPathQuiet(p) == \A q \in Procs \ {p} : pc[q] \notin StopLabels

\* The events of path p from its first hook of the Stop phases on.
StopEvents(p) ==
  SelectSeq(Invocations(p), LAMBDA ev : ev[1] \in {"BeforeStop", "ServerStop", "AfterStop"})

\* C18: if a BeforeStop hook returns an error, Stop returns it without
\* sending a shutdown request, so the server stays running (as far as this
\* call goes) and no AfterStop hook runs; if HttpServer.Stop returns an error
\* no AfterStop hook runs; if an AfterStop hook returns an error the remaining
\* AfterStop hooks are skipped and the error is returned.
C18_StopPhaseFailFast ==
  \A p \in Procs :
    /\ StopFailedIn(p, "BeforeStop") =>
         /\ pc[p] = "returned"
         /\ StopEvents(p) = HookPrefix("BeforeStop", Last(log[p]).i)
         /\ exitRecv[p] = 0 /\ hsRet[p] = "none"
         /\ OtherPathQuiet(p) =>
              /\ hsStopCalls = 0
              /\ listener.state = "open"
              /\ drainPc = "recv"
    /\ hsRet[p] \notin {"none", Nil} => HookRuns(p, "AfterStop") = {}
    /\ StopFailedIn(p, "AfterStop") =>
         /\ pc[p] = "returned"
         /\ StopEvents(p) =
              PhaseEvents("BeforeStop") \o <<<<"ServerStop", 0>>>>
                \o HookPrefix("AfterStop", Last(log[p]).i)

\* The caller's Stop failed in its first BeforeStop hook with the server
\* still running; the watcher's Stop failed in its first AfterStop hook.
C18_Witness ==
  /\ StopFailedIn("caller", "BeforeStop")
  /\ Len(StopEvents("caller")) < NumHooks("BeforeStop")
  /\ StopFailedIn("watcher", "AfterStop")
  /\ Cardinality(HookRuns("watcher", "AfterStop")) < NumHooks("AfterStop")

\* How often hook i of a phase has run, on both paths together.
HookCount(phase, i) ==
  Cardinality({<<p, j>> \in Procs \X (1..(4 * MaxHooks + 2)) :
                 /\ j <= Len(log[p])
                 /\ log[p][j].phase = phase
                 /\ log[p][j].i = i})

\* C19: whatever the interleaving of the caller's Stop with the watcher's,
\* each BeforeStop and each AfterStop hook runs at most once per successful
\* Start, and HttpServer.Stop is invoked at most once.
C19_StopRunsAtMostOnce ==
  /\ hsStopCalls <= 1
  /\ \A phase \in {"BeforeStop", "AfterStop"} : \A i \in 1..MaxHooks + 1 :
       HookCount(phase, i) <= 1

\* -----------------------------------------------------------------
\* Composition never short-circuits
\* -----------------------------------------------------------------

\* How often step e occurs among the steps of the last request.
Occurrences(e) == Len(SelectSeq(ServedSteps, LAMBDA x : x = e))

\* C16: for every request to a composed handler, the base handler and each
\* decorator of the endpoint's list are invoked exactly once.
C16_NoShortCircuit ==
  served.ep # 0 =>
    LET ds == handlers[served.ep].ep.Decorators
    IN /\ Occurrences([Type |-> "Handler", fn |-> 0]) = 1
       /\ \A i \in 1..Len(ds) : Occurrences(ds[i]) = 1
       /\ Len(ServedSteps) = Len(ds) + 1

\* A request to an endpoint with the longest decorator list, of both types.
C16_Witness ==
  /\ served.ep # 0
  /\ LET ds == handlers[served.ep].ep.Decorators
     IN /\ Len(ds) = MaxDecorators
        /\ \E i, j \in 1..Len(ds) : ds[i].Type = Before /\ ds[j].Type = After

\* -----------------------------------------------------------------
\* NewHttpServer on any Options
\* -----------------------------------------------------------------

Hostnames == {"", "localhost", "example.org"}
Ports == {-2, -1, 0, 1, 8080}
Timeouts == {-1, 0, 1, DefaultShutdownTimeout, 30}
TLSPaths == {"", "server.pem"}

AllOptions ==
  [Hostname : Hostnames, Port : Ports, CertificateFile : TLSPaths, KeyFile : TLSPaths,
   ShutdownTimeout : Timeouts]

\* The Options a caller is about to hand to NewHttpServer.
OptionsInit ==
  /\ InitService
  /\ opts.BeforeStart = 0 /\ opts.Port = 0 /\ ~opts.Signal /\ ~TracingConfigured
  /\ \E o \in AllOptions : server = [nil |-> TRUE, address |-> NoAddr, options |-> o]

\* hs := NewHttpServer(options, handler)
NewHttpServerCall ==
  /\ server.nil
  /\ server' = NewHttpServer(server.options)
  /\ UNCHANGED <<svcVars, lifeVars, listener, servePc, drainPc, drainCh, shutdownErr,
                 elapsed, inflight, hsStopCalls, exitRecv, acks, hsRet, envVars>>

OptionsNext == NewHttpServerCall

OptionsSpec == OptionsInit /\ [][OptionsNext]_vars

\* C15: NewHttpServer turns an empty hostname into "localhost", a negative
\* port into 0 and a non-positive shutdown timeout into 5, keeps every other
\* value it is given (hostname, port, timeout, TLS paths), and sets the initial
\* address to the hostname and port it ended up with.
C15_NewHttpServerNormalises ==
  [][server.nil /\ ~server'.nil =>
       LET o == server.options
           n == server'.options
       IN /\ o.Hostname = "" => n.Hostname = "localhost"
          /\ o.Hostname # "" => n.Hostname = o.Hostname
          /\ o.Port < 0 => n.Port = 0
          /\ o.Port >= 0 => n.Port = o.Port
          /\ o.ShutdownTimeout <= 0 => n.ShutdownTimeout = 5
          /\ o.ShutdownTimeout > 0 => n.ShutdownTimeout = o.ShutdownTimeout
          /\ n.CertificateFile = o.CertificateFile
          /\ n.KeyFile = o.KeyFile
          /\ server'.address = [host |-> n.Hostname, port |-> n.Port]]_vars

\* A server constructed with every default applied and both TLS paths kept.
C15_Witness ==
  /\ ~server.nil
  /\ pc["caller"] = "init"
  /\ server.options.Hostname = "localhost"
  /\ server.options.Port = 0
  /\ server.options.ShutdownTimeout = DefaultShutdownTimeout
  /\ server.options.CertificateFile # "" /\ server.options.KeyFile # ""
  /\ server.address = [host |-> "localhost", port |-> 0]

====
